---------------------------- MODULE Spec2Model ----------------------------
(***************************************************************************)
(* A model of polyaxon's ConfigManager (config_manager/config_manager.py): *)
(* the typed getters over a raw parameter mapping, their two generic       *)
(* engines (_get_typed_value, _get_typed_list_value), the bookkeeping of   *)
(* requested / secret / local keys, get_requested_params and               *)
(* parse_uri_spec.                                                         *)
(*                                                                         *)
(* Python values are records [t, n, e, s, l]:                              *)
(*   t  the runtime type: "none" "bool" "int" "float" "str" "list" "dict"  *)
(*      "uri";                                                             *)
(*   n  the number of a bool (0/1), an int, or the mantissa of a float;    *)
(*   e  the number of decimal places of a float ( value = n / 10^e );      *)
(*   s  the characters of a str, a sequence of one-character strings;      *)
(*   l  the elements of a list, the alternating keys and values of a dict, *)
(*      or <<user, password, host>> of a UriSpec.                          *)
(* Texts are sequences of one-character strings so that the converters     *)
(* (int, float, strtobool, json.loads, split) are computed character by    *)
(* character, as the library computes them.  The characters that occur in  *)
(* the texts of this model are the digits, the letters a b c f t x y, the  *)
(* space and the punctuation  [ ] { } , : " @ .  ; the converters below    *)
(* are those of Python restricted to texts over these characters (no sign, *)
(* exponent, escape or JSON literal word can be spelled with them), and to *)
(* the words of the examples (maybe, alice, secret, db.local), which no    *)
(* converter but str, parse_list and parse_uri_spec accepts.               *)
(***************************************************************************)
EXTENDS Integers, Sequences, FiniteSets, TLC

---------------------------------------------------------------------------
(* Python values *)

PyNone == [t |-> "none", n |-> 0, e |-> 0, s |-> <<>>, l |-> <<>>]

PyBool(b) == [t |-> "bool", n |-> IF b THEN 1 ELSE 0, e |-> 0, s |-> <<>>, l |-> <<>>]

PyInt(i) == [t |-> "int", n |-> i, e |-> 0, s |-> <<>>, l |-> <<>>]

PyFloat(m, d) == [t |-> "float", n |-> m, e |-> d, s |-> <<>>, l |-> <<>>]

PyStr(chars) == [t |-> "str", n |-> 0, e |-> 0, s |-> chars, l |-> <<>>]

PyList(elems) == [t |-> "list", n |-> 0, e |-> 0, s |-> <<>>, l |-> elems]

PyDict(items) == [t |-> "dict", n |-> 0, e |-> 0, s |-> <<>>, l |-> items]

UriSpec(user, password, host) ==
    [t |-> "uri", n |-> 0, e |-> 0, s |-> <<>>, l |-> <<PyStr(user), PyStr(password), PyStr(host)>>]

(* isinstance(value, target_type) for the target types the getters pass.   *)
(* bool is a subclass of int in Python.                                    *)
IsInstance(value, target_type) ==
    CASE target_type = "int"     -> value.t \in {"int", "bool"}
      [] target_type = "float"   -> value.t = "float"
      [] target_type = "bool"    -> value.t = "bool"
      [] target_type = "str"     -> value.t = "str"
      [] target_type = "Mapping" -> value.t = "dict"
      [] target_type = "UriSpec" -> value.t = "uri"
      [] target_type = "list"    -> value.t = "list"
      [] OTHER                   -> FALSE

(* The truth value of `not value` negated. *)
Truthy(value) ==
    CASE value.t = "none"               -> FALSE
      [] value.t \in {"bool", "int", "float"} -> value.n # 0
      [] value.t = "str"                -> value.s # <<>>
      [] value.t \in {"list", "dict"}   -> value.l # <<>>
      [] OTHER                          -> TRUE

RECURSIVE Pow10(_)
Pow10(k) == IF k = 0 THEN 1 ELSE 10 * Pow10(k - 1)

IsNumber(value) == value.t \in {"bool", "int", "float"}

(* a == b of Python: numbers compare by value across bool, int and float;  *)
(* lists element by element; dicts key by key; everything else by type and *)
(* content.                                                                *)
RECURSIVE PyEq(_, _)
RECURSIVE DictGet(_, _)
DictGet(items, k) ==
    IF items = <<>> THEN <<>>
    ELSE IF items[1].s = k.s /\ items[1].t = k.t THEN <<items[2]>>
    ELSE DictGet(SubSeq(items, 3, Len(items)), k)

PyEq(a, b) ==
    CASE IsNumber(a) /\ IsNumber(b) -> a.n * Pow10(b.e) = b.n * Pow10(a.e)
      [] a.t = "list" /\ b.t = "list" ->
            /\ Len(a.l) = Len(b.l)
            /\ \A i \in 1..Len(a.l) : PyEq(a.l[i], b.l[i])
      [] a.t = "dict" /\ b.t = "dict" ->
            /\ Len(a.l) = Len(b.l)
            /\ \A i \in 1..(Len(a.l) \div 2) :
                  LET got == DictGet(b.l, a.l[2 * i - 1])
                  IN  got # <<>> /\ PyEq(a.l[2 * i], got[1])
      [] OTHER -> a.t = b.t /\ a = b

(* value in options, for options a list or tuple of values *)
PyIn(value, options) == \E i \in 1..Len(options.l) : PyEq(value, options.l[i])

---------------------------------------------------------------------------
(* Texts and the library converters *)

Digits == <<"0", "1", "2", "3", "4", "5", "6", "7", "8", "9">>

IsDigit(c) == \E d \in 1..10 : Digits[d] = c

DigitVal(c) == (CHOOSE d \in 1..10 : Digits[d] = c) - 1

(* The character at position i, or "" past the end. *)
At(text, i) == IF i >= 1 /\ i <= Len(text) THEN text[i] ELSE ""

RECURSIVE SkipWs(_, _)
SkipWs(text, i) == IF At(text, i) = " " THEN SkipWs(text, i + 1) ELSE i

RECURSIVE SkipWsBack(_, _)
SkipWsBack(text, i) == IF At(text, i) = " " THEN SkipWsBack(text, i - 1) ELSE i

(* str.strip() *)
Strip(text) == SubSeq(text, SkipWs(text, 1), SkipWsBack(text, Len(text)))

(* The end of the run of digits that starts at position i. *)
RECURSIVE DigitsEnd(_, _)
DigitsEnd(text, i) == IF IsDigit(At(text, i)) THEN DigitsEnd(text, i + 1) ELSE i

RECURSIVE DigitsVal(_, _, _)
DigitsVal(text, i, j) ==
    IF j < i THEN 0 ELSE 10 * DigitsVal(text, i, j - 1) + DigitVal(text[j])

(* A converter's outcome: a value, or the exception it raises. *)
Converted(value) == [ok |-> TRUE, v |-> value, exc |-> "none"]

ValueError == [ok |-> FALSE, v |-> PyNone, exc |-> "ValueError"]

RaisedConfigurationError == [ok |-> FALSE, v |-> PyNone, exc |-> "ConfigurationError"]

(* int(text): surrounding whitespace is stripped, then one or more digits. *)
ConvertInt(text) ==
    LET body == Strip(text)
    IN  IF body # <<>> /\ DigitsEnd(body, 1) = Len(body) + 1
        THEN Converted(PyInt(DigitsVal(body, 1, Len(body))))
        ELSE ValueError

(* A float of mantissa m and d decimal places, trailing zeros dropped. *)
RECURSIVE NormFloat(_, _)
NormFloat(m, d) ==
    IF d > 0 /\ m % 10 = 0 THEN NormFloat(m \div 10, d - 1) ELSE PyFloat(m, d)

(* float(text): stripped, then digits with at most one ".", at least one   *)
(* digit in all ("4", "4.", ".5", "4.2").                                  *)
ConvertFloat(text) ==
    LET body == Strip(text)
        dot  == DigitsEnd(body, 1)
        stop == DigitsEnd(body, dot + 1)
    IN  IF body = <<>> THEN ValueError
        ELSE IF dot = Len(body) + 1
        THEN Converted(PyFloat(DigitsVal(body, 1, Len(body)), 0))
        ELSE IF At(body, dot) = "." /\ stop = Len(body) + 1 /\ Len(body) > 1
        THEN Converted(NormFloat(
                 DigitsVal(body, 1, dot - 1) * Pow10(Len(body) - dot)
                     + DigitsVal(body, dot + 1, Len(body)),
                 Len(body) - dot))
        ELSE ValueError

(* distutils.util.strtobool on lower-case text: 1 for y yes t true on 1,   *)
(* 0 for n no f false off 0, ValueError for anything else; bool() of it.   *)
StrToBoolTrue ==
    {<<"y">>, <<"y", "e", "s">>, <<"t">>, <<"t", "r", "u", "e">>, <<"o", "n">>, <<"1">>}

StrToBoolFalse ==
    {<<"n">>, <<"n", "o">>, <<"f">>, <<"f", "a", "l", "s", "e">>, <<"o", "f", "f">>, <<"0">>}

ConvertBool(text) ==
    IF text \in StrToBoolTrue THEN Converted(PyBool(TRUE))
    ELSE IF text \in StrToBoolFalse THEN Converted(PyBool(FALSE))
    ELSE ValueError

(* str(text) of a str *)
ConvertStr(text) == Converted(PyStr(text))

(* text.split(sep): the pieces between the occurrences of sep *)
RECURSIVE Split(_, _, _, _)
Split(text, sep, i, piece) ==
    IF i > Len(text) THEN <<piece>>
    ELSE IF text[i] = sep THEN <<piece>> \o Split(text, sep, i + 1, <<>>)
    ELSE Split(text, sep, i + 1, Append(piece, text[i]))

(* get_list's parse_list: split at ",", strip each part, drop empty parts *)
RECURSIVE StripParts(_)
StripParts(parts) ==
    IF parts = <<>> THEN <<>>
    ELSE LET part == Strip(parts[1])
         IN  (IF part # <<>> THEN <<PyStr(part)>> ELSE <<>>)
                 \o StripParts(Tail(parts))

parse_list(text) == Converted(PyList(StripParts(Split(text, ",", 1, <<>>))))

---------------------------------------------------------------------------
(* json.loads *)

JFail == [ok |-> FALSE, v |-> PyNone, i |-> 0]

JOk(value, next) == [ok |-> TRUE, v |-> value, i |-> next]

(* A JSON number at position i: 0 or a run of digits that does not start   *)
(* with 0, then optionally "." and one or more digits.                     *)
JNumber(text, i) ==
    LET intEnd  == IF text[i] = "0" THEN i + 1 ELSE DigitsEnd(text, i)
        fracEnd == DigitsEnd(text, intEnd + 1)
    IN  IF At(text, intEnd) = "." /\ fracEnd > intEnd + 1
        THEN JOk(NormFloat(DigitsVal(text, i, intEnd - 1) * Pow10(fracEnd - intEnd - 1)
                               + DigitsVal(text, intEnd + 1, fracEnd - 1),
                           fracEnd - intEnd - 1),
                 fracEnd)
        ELSE JOk(PyInt(DigitsVal(text, i, intEnd - 1)), intEnd)

(* The position of the next double quote at or after i, or 0. *)
RECURSIVE QuoteAt(_, _)
QuoteAt(text, i) ==
    IF i > Len(text) THEN 0
    ELSE IF text[i] = "\"" THEN i
    ELSE QuoteAt(text, i + 1)

(* A JSON string whose opening quote is at position i. *)
JString(text, i) ==
    LET close == QuoteAt(text, i + 1)
    IN  IF close = 0 THEN JFail
        ELSE JOk(PyStr(SubSeq(text, i + 1, close - 1)), close + 1)

(* d[k] = v on the items of a dict: a repeated key keeps its place. *)
RECURSIVE DictPut(_, _, _)
DictPut(items, k, v) ==
    IF items = <<>> THEN <<k, v>>
    ELSE IF items[1] = k THEN <<k, v>> \o SubSeq(items, 3, Len(items))
    ELSE <<items[1], items[2]>> \o DictPut(SubSeq(items, 3, Len(items)), k, v)

RECURSIVE JValue(_, _)
RECURSIVE JArrayRest(_, _, _)
RECURSIVE JObjectRest(_, _, _)
(* The JSON value that starts at position i (whitespace already skipped). *)
JValue(text, i) ==
    LET c == At(text, i)
    IN  CASE c = "\"" -> JString(text, i)
          [] c = "["  ->
                LET j == SkipWs(text, i + 1)
                IN  IF At(text, j) = "]" THEN JOk(PyList(<<>>), j + 1)
                    ELSE JArrayRest(text, j, <<>>)
          [] c = "{"  ->
                LET j == SkipWs(text, i + 1)
                IN  IF At(text, j) = "}" THEN JOk(PyDict(<<>>), j + 1)
                    ELSE JObjectRest(text, j, <<>>)
          [] IsDigit(c) -> JNumber(text, i)
          [] OTHER -> JFail

(* The elements of an array from position i on, after those of acc. *)
JArrayRest(text, i, acc) ==
    LET r == JValue(text, i)
        j == SkipWs(text, r.i)
    IN  IF ~r.ok THEN JFail
        ELSE IF At(text, j) = "," THEN JArrayRest(text, SkipWs(text, j + 1), Append(acc, r.v))
        ELSE IF At(text, j) = "]" THEN JOk(PyList(Append(acc, r.v)), j + 1)
        ELSE JFail

(* The "key": value pairs of an object from position i on. *)
JObjectRest(text, i, acc) ==
    LET k == IF At(text, i) = "\"" THEN JString(text, i) ELSE JFail
        j == SkipWs(text, k.i)
        r == IF k.ok /\ At(text, j) = ":" THEN JValue(text, SkipWs(text, j + 1)) ELSE JFail
        m == SkipWs(text, r.i)
    IN  IF ~r.ok THEN JFail
        ELSE IF At(text, m) = "," THEN JObjectRest(text, SkipWs(text, m + 1), DictPut(acc, k.v, r.v))
        ELSE IF At(text, m) = "}" THEN JOk(PyDict(DictPut(acc, k.v, r.v)), m + 1)
        ELSE JFail

(* json.loads(text): one value, whitespace around it, nothing after it;    *)
(* json.JSONDecodeError is a ValueError.                                   *)
JsonLoads(text) ==
    LET r == JValue(text, SkipWs(text, 1))
    IN  IF r.ok /\ SkipWs(text, r.i) = Len(text) + 1 THEN Converted(r.v) ELSE ValueError

(* get_dict's convert_to_dict: json.loads, then ValueError unless a Mapping *)
convert_to_dict(text) ==
    LET x == JsonLoads(text)
    IN  IF x.ok /\ ~IsInstance(x.v, "Mapping") THEN ValueError ELSE x

---------------------------------------------------------------------------
(* ConfigManager.parse_uri_spec *)

(* parse_uri_spec with "at least" in place of "exactly" one ":" *)
parse_uri_spec_lenient(uri_spec) ==
    LET parts     == Split(uri_spec, "@", 1, <<>>)
        user_pass == Split(parts[1], ":", 1, <<>>)
    IN  IF Len(parts) # 2 THEN RaisedConfigurationError
        ELSE IF Len(user_pass) < 2 THEN RaisedConfigurationError
        ELSE Converted(UriSpec(user_pass[1], user_pass[2], parts[2]))

parse_uri_spec(uri_spec) ==
    LET parts     == Split(uri_spec, "@", 1, <<>>)
        user_pass == Split(parts[1], ":", 1, <<>>)
    IN  IF Len(parts) # 2 THEN RaisedConfigurationError
        ELSE IF Len(user_pass) # 2 THEN RaisedConfigurationError
        ELSE Converted(UriSpec(user_pass[1], user_pass[2], parts[2]))

---------------------------------------------------------------------------
(* base64 and UTF-8, as _encode and _decode use them.  In this part a text *)
(* is the sequence of its code points and a bytes object the sequence of   *)
(* its byte values: "a" is <<97>>, "=" is <<61>>.                          *)

Pad == 61

(* The base64 alphabet: A-Z, a-z, 0-9, +, / *)
B64Code(i) ==
    IF i < 26 THEN 65 + i
    ELSE IF i < 52 THEN 97 + (i - 26)
    ELSE IF i < 62 THEN 48 + (i - 52)
    ELSE IF i = 62 THEN 43 ELSE 47

(* The value of a character in the alphabet, 64 for any other character. *)
B64Index(c) ==
    IF c >= 65 /\ c <= 90 THEN c - 65
    ELSE IF c >= 97 /\ c <= 122 THEN c - 97 + 26
    ELSE IF c >= 48 /\ c <= 57 THEN c - 48 + 52
    ELSE IF c = 43 THEN 62
    ELSE IF c = 47 THEN 63 ELSE 64

BytesOk(b) == [ok |-> TRUE, b |-> b, exc |-> "none"]

BytesErr(exc) == [ok |-> FALSE, b |-> <<>>, exc |-> exc]

TextOk(t) == [ok |-> TRUE, t |-> t, exc |-> "none"]

TextErr(exc) == [ok |-> FALSE, t |-> <<>>, exc |-> exc]

(* str.encode('utf-8') *)
Utf8Bytes(cp) ==
    IF cp < 128 THEN <<cp>>
    ELSE IF cp < 2048 THEN <<192 + (cp \div 64), 128 + (cp % 64)>>
    ELSE IF cp < 65536
    THEN <<224 + (cp \div 4096), 128 + ((cp \div 64) % 64), 128 + (cp % 64)>>
    ELSE <<240 + (cp \div 262144), 128 + ((cp \div 4096) % 64),
           128 + ((cp \div 64) % 64), 128 + (cp % 64)>>

IsSurrogate(cp) == cp >= 55296 /\ cp <= 57343

RECURSIVE Utf8Encode(_, _, _)
Utf8Encode(text, i, bytes) ==
    IF i > Len(text) THEN BytesOk(bytes)
    ELSE IF IsSurrogate(text[i]) THEN BytesErr("UnicodeEncodeError")
    ELSE Utf8Encode(text, i + 1, bytes \o Utf8Bytes(text[i]))

(* base64.b64encode *)
RECURSIVE b64encode(_)
b64encode(bytes) ==
    IF Len(bytes) = 0 THEN <<>>
    ELSE IF Len(bytes) = 1
    THEN <<B64Code(bytes[1] \div 4), B64Code((bytes[1] % 4) * 16), Pad, Pad>>
    ELSE IF Len(bytes) = 2
    THEN <<B64Code(bytes[1] \div 4), B64Code((bytes[1] % 4) * 16 + (bytes[2] \div 16)),
           B64Code((bytes[2] % 16) * 4), Pad>>
    ELSE <<B64Code(bytes[1] \div 4), B64Code((bytes[1] % 4) * 16 + (bytes[2] \div 16)),
           B64Code((bytes[2] % 16) * 4 + (bytes[3] \div 64)), B64Code(bytes[3] % 64)>>
         \o b64encode(SubSeq(bytes, 4, Len(bytes)))

EncodedBytes(bin) ==
    IF bin.ok THEN TextOk(b64encode(bin.b)) ELSE TextErr(bin.exc)

(* _encode: base64.b64encode(value.encode('utf-8')).decode('utf-8') *)
encode(value) == EncodedBytes(Utf8Encode(value, 1, <<>>))

(* binascii.a2b_base64, not strict: characters outside the alphabet are    *)
(* skipped, a complete pad sequence ends the input, an incomplete quad at  *)
(* the end is binascii.Error.                                              *)
RECURSIVE a2b_base64(_, _, _, _, _, _)
a2b_base64(data, i, quad_pos, pads, leftchar, bin) ==
    IF i > Len(data)
    THEN IF quad_pos # 0 THEN BytesErr("binascii.Error") ELSE BytesOk(bin)
    ELSE IF data[i] = Pad
    THEN IF quad_pos >= 2 /\ quad_pos + pads + 1 >= 4 THEN BytesOk(bin)
         ELSE a2b_base64(data, i + 1, quad_pos,
                         IF quad_pos >= 2 THEN pads + 1 ELSE pads, leftchar, bin)
    ELSE IF B64Index(data[i]) >= 64
    THEN a2b_base64(data, i + 1, quad_pos, pads, leftchar, bin)
    ELSE CASE quad_pos = 0 ->
                a2b_base64(data, i + 1, 1, 0, B64Index(data[i]), bin)
           [] quad_pos = 1 ->
                a2b_base64(data, i + 1, 2, 0, B64Index(data[i]) % 16,
                           Append(bin, leftchar * 4 + (B64Index(data[i]) \div 16)))
           [] quad_pos = 2 ->
                a2b_base64(data, i + 1, 3, 0, B64Index(data[i]) % 4,
                           Append(bin, leftchar * 16 + (B64Index(data[i]) \div 4)))
           [] quad_pos = 3 ->
                a2b_base64(data, i + 1, 0, 0, 0,
                           Append(bin, leftchar * 64 + B64Index(data[i])))

(* base64.b64decode of a str: ValueError unless it is ASCII *)
b64decode(value) ==
    IF \E i \in 1..Len(value) : value[i] > 127 THEN BytesErr("ValueError")
    ELSE a2b_base64(value, 1, 0, 0, 0, <<>>)

(* bytes.decode('utf-8') *)
IsCont(b) == b >= 128 /\ b <= 191

Second3(lead, b) ==
    IF lead = 224 THEN b >= 160 /\ b <= 191
    ELSE IF lead = 237 THEN b >= 128 /\ b <= 159
    ELSE IsCont(b)

Second4(lead, b) ==
    IF lead = 240 THEN b >= 144 /\ b <= 191
    ELSE IF lead = 244 THEN b >= 128 /\ b <= 143
    ELSE IsCont(b)

RECURSIVE Utf8Decode(_, _, _)
Utf8Decode(b, i, text) ==
    IF i > Len(b) THEN TextOk(text)
    ELSE IF b[i] < 128 THEN Utf8Decode(b, i + 1, Append(text, b[i]))
    ELSE IF b[i] >= 194 /\ b[i] <= 223 /\ i + 1 <= Len(b) /\ IsCont(b[i + 1])
    THEN Utf8Decode(b, i + 2, Append(text, (b[i] - 192) * 64 + (b[i + 1] - 128)))
    ELSE IF /\ b[i] >= 224 /\ b[i] <= 239 /\ i + 2 <= Len(b)
            /\ Second3(b[i], b[i + 1]) /\ IsCont(b[i + 2])
    THEN Utf8Decode(b, i + 3, Append(text, (b[i] - 224) * 4096 + (b[i + 1] - 128) * 64
                                           + (b[i + 2] - 128)))
    ELSE IF /\ b[i] >= 240 /\ b[i] <= 244 /\ i + 3 <= Len(b)
            /\ Second4(b[i], b[i + 1]) /\ IsCont(b[i + 2]) /\ IsCont(b[i + 3])
    THEN Utf8Decode(b, i + 4, Append(text, (b[i] - 240) * 262144 + (b[i + 1] - 128) * 4096
                                           + (b[i + 2] - 128) * 64 + (b[i + 3] - 128)))
    ELSE TextErr("UnicodeDecodeError")

DecodedBytes(bin) ==
    IF bin.ok THEN Utf8Decode(bin.b, 1, <<>>) ELSE TextErr(bin.exc)

(* _decode_once: base64.b64decode(value).decode('utf-8') *)
decode_once(value) == DecodedBytes(b64decode(value))

(* for _ in range(iteration): value = _decode_once() *)
RECURSIVE decode_passes(_, _)
RECURSIVE AfterPass(_, _)
decode_passes(value, iteration) ==
    IF iteration <= 0 THEN TextOk(value)
    ELSE AfterPass(decode_once(value), iteration)

AfterPass(pass, iteration) ==
    IF pass.ok THEN decode_passes(pass.t, iteration - 1) ELSE pass

(* def _decode(self, value, iteration=3) *)
DefaultIteration == 3

---------------------------------------------------------------------------
(* ConfigManager: the state of one instance *)

VARIABLES
    params,             \* self._params: key -> stored value
    requested_keys,     \* self._requested_keys
    secret_keys,        \* self._secret_keys
    local_keys,         \* self._local_keys
    decode_iterations,  \* the cached property: <<>> until computed, then <<value>>
    ret,                \* the last call: its name, its first argument (the key, the
                        \* term, the uri_spec) and what it returned or raised
    params0,            \* history: the mapping given to the constructor
    rec,                \* history: the arguments of the call ret belongs to
    failed,             \* history: the keys of the recorded calls that raised
    builder             \* a NotebookDockerBuilder, its project table and its last
                        \* _check_pulse call (NoBuilder where there is none)

vars ==
    <<params, requested_keys, secret_keys, local_keys, decode_iterations, ret,
      params0, rec, failed, builder>>

(* The instance as the methods see it. *)
Self ==
    [params |-> params, requested_keys |-> requested_keys,
     secret_keys |-> secret_keys, local_keys |-> local_keys]

(* __init__: the keyword arguments become self._params *)
ConfigManager(kwargs) ==
    [params |-> kwargs, requested_keys |-> {}, secret_keys |-> {}, local_keys |-> {}]

EmptyMap == [k \in {} |-> PyNone]

(* A call's outcome: the instance after it, and the value returned or the  *)
(* ConfigurationError raised (err: the raise statement it comes from,      *)
(* about: the value its message names).                                    *)
Return(self, value) ==
    [self |-> self, kind |-> "return", err |-> "none", v |-> value, about |-> PyNone]

Raise(self, err, about) ==
    [self |-> self, kind |-> "error", err |-> err, v |-> PyNone, about |-> about]

(* _get: self._params[key]; KeyError when the key is absent *)
HasKey(self, key) == key \in DOMAIN self.params

get(self, key) == self.params[key]

(* add_key with the key recorded as requested only when it carries no flag *)
add_key_flagged_apart(self, key, is_secret, is_local) ==
    [self EXCEPT !.requested_keys = IF is_secret \/ is_local THEN @ ELSE @ \cup {key},
                 !.secret_keys = IF is_secret THEN @ \cup {key} ELSE @,
                 !.local_keys = IF is_local THEN @ \cup {key} ELSE @]

(* add_key with each flag following the latest call *)
add_key_latest_flags(self, key, is_secret, is_local) ==
    [self EXCEPT !.requested_keys = @ \cup {key},
                 !.secret_keys = IF is_secret THEN @ \cup {key} ELSE @ \ {key},
                 !.local_keys = IF is_local THEN @ \cup {key} ELSE @ \ {key}]

add_key(self, key, is_secret, is_local) ==
    [self EXCEPT !.requested_keys = @ \cup {key},
                 !.secret_keys = IF is_secret THEN @ \cup {key} ELSE @,
                 !.local_keys = IF is_local THEN @ \cup {key} ELSE @]

(* _check_options: TRUE when it raises.  options is None or a list. *)
check_options(value, options) == Truthy(options) /\ ~PyIn(value, options)

(* type_convert(text) for the converters the getters pass *)
TypeConvert(type_convert, text) ==
    CASE type_convert = "int"             -> ConvertInt(text)
      [] type_convert = "float"           -> ConvertFloat(text)
      [] type_convert = "strtobool"       -> ConvertBool(text)
      [] type_convert = "str"             -> ConvertStr(text)
      [] type_convert = "convert_to_dict" -> convert_to_dict(text)
      [] type_convert = "parse_uri_spec"  -> parse_uri_spec(text)
      [] type_convert = "parse_list"      -> parse_list(text)
      [] type_convert = "json.loads"      -> JsonLoads(text)

(* FromString with the stored text returned in place of its conversion *)
FromString_unconverted(added, value, conv, options) ==
    IF check_options(value, options) THEN Raise(added, "options", value)
    ELSE IF conv.ok THEN Return(added, value)
    ELSE IF conv.exc = "ValueError" THEN Raise(added, "convert", value)
    ELSE Raise(added, "uri_spec", value)

(* The try block of _get_typed_value for a stored str, conv being         *)
(* type_convert(value): _add_key has run, then _check_options, then the    *)
(* conversion.  A ValueError of the converter is re-raised as the          *)
(* "convert" ConfigurationError; a ConfigurationError raised inside the    *)
(* try (by _check_options or parse_uri_spec) reaches the caller.           *)
FromString(added, value, conv, options) ==
    IF check_options(value, options) THEN Raise(added, "options", value)
    ELSE IF conv.ok THEN Return(added, conv.v)
    ELSE IF conv.exc = "ValueError" THEN Raise(added, "convert", value)
    ELSE Raise(added, "uri_spec", value)

(* The branch of _get_typed_value for a stored value of the target type. *)
FromNative(added, value, options) ==
    IF check_options(value, options) THEN Raise(added, "options", value)
    ELSE Return(added, value)

(* The instance without the entry of key. *)
Without(self, key) ==
    [self EXCEPT !.params = [k \in (DOMAIN self.params) \ {key} |-> self.params[k]]]

(* _get_typed_value with the entry of a wrongly shaped value deleted *)
get_typed_value_drops_entry(self, key, target_type, type_convert, is_optional, is_secret, is_local, default, options) ==
    IF ~HasKey(self, key)
    THEN IF ~is_optional THEN Raise(self, "missing", PyNone) ELSE Return(self, default)
    ELSE IF IsInstance(get(self, key), "str")
    THEN FromString(add_key(self, key, is_secret, is_local), get(self, key),
                    TypeConvert(type_convert, get(self, key).s), options)
    ELSE IF IsInstance(get(self, key), target_type)
    THEN FromNative(add_key(self, key, is_secret, is_local), get(self, key), options)
    ELSE Raise(Without(self, key), "shape", get(self, key))

(* _get_typed_value *)
get_typed_value(self, key, target_type, type_convert, is_optional, is_secret, is_local, default, options) ==
    IF ~HasKey(self, key)
    THEN IF ~is_optional THEN Raise(self, "missing", PyNone) ELSE Return(self, default)
    ELSE IF IsInstance(get(self, key), "str")
    THEN FromString(add_key(self, key, is_secret, is_local), get(self, key),
                    TypeConvert(type_convert, get(self, key).s), options)
    ELSE IF IsInstance(get(self, key), target_type)
    THEN FromNative(add_key(self, key, is_secret, is_local), get(self, key), options)
    ELSE Raise(self, "shape", get(self, key))

(* The loop of _get_typed_list_value over the elements from position i on: *)
(* the converted list, or the first element that cannot be taken with the  *)
(* exception that stops the loop.                                          *)
RECURSIVE ConvertElements(_, _, _, _, _)
RECURSIVE AppendConverted(_, _, _, _, _, _)
ConvertElements(value, i, target_type, type_convert, result) ==
    IF i > Len(value) THEN [ok |-> TRUE, result |-> result, v |-> PyNone, exc |-> "none"]
    ELSE IF IsInstance(value[i], "str")
    THEN AppendConverted(value, i, target_type, type_convert, result,
                         TypeConvert(type_convert, value[i].s))
    ELSE IF IsInstance(value[i], target_type)
    THEN ConvertElements(value, i + 1, target_type, type_convert, Append(result, value[i]))
    ELSE [ok |-> FALSE, result |-> <<>>, v |-> value[i], exc |-> "ValueError"]

(* AppendConverted with an element that does not convert left out *)
AppendConverted_skips(value, i, target_type, type_convert, result, conv) ==
    IF conv.ok
    THEN ConvertElements(value, i + 1, target_type, type_convert, Append(result, conv.v))
    ELSE ConvertElements(value, i + 1, target_type, type_convert, result)

(* result.append(type_convert(v)) for the str element at position i, conv  *)
(* being type_convert(v), and the rest of the loop.                        *)
AppendConverted(value, i, target_type, type_convert, result, conv) ==
    IF conv.ok
    THEN ConvertElements(value, i + 1, target_type, type_convert, Append(result, conv.v))
    ELSE [ok |-> FALSE, result |-> <<>>, v |-> value[i], exc |-> conv.exc]

(* The end of _get_typed_list_value, elems being the outcome of its loop. *)
FromElements(self, elems) ==
    IF elems.ok THEN Return(self, PyList(elems.result))
    ELSE IF elems.exc = "ConfigurationError" THEN Raise(self, "uri_spec", elems.v)
    ELSE Raise(self, "element", elems.v)

(* _get_typed_list_value after its call of _get_typed_value, got being     *)
(* that call's outcome.                                                    *)
FromList(got, target_type, type_convert, default) ==
    IF got.kind = "error" THEN got
    ELSE IF ~Truthy(got.v) THEN Return(got.self, default)
    ELSE IF ~IsInstance(got.v, "list") THEN Raise(got.self, "not_a_list", got.v)
    ELSE FromElements(got.self, ConvertElements(got.v.l, 1, target_type, type_convert, <<>>))

(* _get_typed_list_value *)
get_typed_list_value(self, key, target_type, type_convert, is_optional, is_secret, is_local, default, options) ==
    FromList(get_typed_value(self, key, "list", "json.loads",
                             is_optional, is_secret, is_local, default, options),
             target_type, type_convert, default)

---------------------------------------------------------------------------
(* The typed getters *)

get_int(self, key, is_list, is_optional, is_secret, is_local, default, options) ==
    IF is_list
    THEN get_typed_list_value(self, key, "int", "int",
                              is_optional, is_secret, is_local, default, options)
    ELSE get_typed_value(self, key, "int", "int",
                         is_optional, is_secret, is_local, default, options)

get_float(self, key, is_list, is_optional, is_secret, is_local, default, options) ==
    IF is_list
    THEN get_typed_list_value(self, key, "float", "float",
                              is_optional, is_secret, is_local, default, options)
    ELSE get_typed_value(self, key, "float", "float",
                         is_optional, is_secret, is_local, default, options)

get_boolean(self, key, is_list, is_optional, is_secret, is_local, default, options) ==
    IF is_list
    THEN get_typed_list_value(self, key, "bool", "strtobool",
                              is_optional, is_secret, is_local, default, options)
    ELSE get_typed_value(self, key, "bool", "strtobool",
                         is_optional, is_secret, is_local, default, options)

get_string(self, key, is_list, is_optional, is_secret, is_local, default, options) ==
    IF is_list
    THEN get_typed_list_value(self, key, "str", "str",
                              is_optional, is_secret, is_local, default, options)
    ELSE get_typed_value(self, key, "str", "str",
                         is_optional, is_secret, is_local, default, options)

(* get_dict after its call of _get_typed_value, got being that call's     *)
(* outcome.                                                                *)
FromDict(got, default) ==
    IF got.kind = "error" THEN got
    ELSE IF ~Truthy(got.v) THEN Return(got.self, default)
    ELSE IF ~IsInstance(got.v, "Mapping") THEN Raise(got.self, "not_a_dict", got.v)
    ELSE got

get_dict(self, key, is_list, is_optional, is_secret, is_local, default, options) ==
    IF is_list
    THEN get_typed_list_value(self, key, "Mapping", "convert_to_dict",
                              is_optional, is_secret, is_local, default, options)
    ELSE FromDict(get_typed_value(self, key, "Mapping", "convert_to_dict",
                                  is_optional, is_secret, is_local, default, options),
                  default)

get_uri(self, key, is_list, is_optional, is_secret, is_local, default, options) ==
    IF is_list
    THEN get_typed_list_value(self, key, "UriSpec", "parse_uri_spec",
                              is_optional, is_secret, is_local, default, options)
    ELSE get_typed_value(self, key, "UriSpec", "parse_uri_spec",
                         is_optional, is_secret, is_local, default, options)

get_list(self, key, is_optional, is_secret, is_local, default, options) ==
    get_typed_value(self, key, "list", "parse_list",
                    is_optional, is_secret, is_local, default, options)

(* The getter call c made on the instance self. *)
Dispatch(self, c) ==
    CASE c.op = "get_int" ->
            get_int(self, c.key, c.is_list, c.is_optional, c.is_secret, c.is_local,
                    c.default, c.options)
      [] c.op = "get_float" ->
            get_float(self, c.key, c.is_list, c.is_optional, c.is_secret, c.is_local,
                      c.default, c.options)
      [] c.op = "get_boolean" ->
            get_boolean(self, c.key, c.is_list, c.is_optional, c.is_secret, c.is_local,
                        c.default, c.options)
      [] c.op = "get_string" ->
            get_string(self, c.key, c.is_list, c.is_optional, c.is_secret, c.is_local,
                       c.default, c.options)
      [] c.op = "get_dict" ->
            get_dict(self, c.key, c.is_list, c.is_optional, c.is_secret, c.is_local,
                     c.default, c.options)
      [] c.op = "get_uri" ->
            get_uri(self, c.key, c.is_list, c.is_optional, c.is_secret, c.is_local,
                    c.default, c.options)
      [] c.op = "get_list" ->
            get_list(self, c.key, c.is_optional, c.is_secret, c.is_local,
                     c.default, c.options)

(* The target_type and the type_convert each getter passes to its engine. *)
TargetType(op) ==
    CASE op = "get_int"     -> "int"
      [] op = "get_float"   -> "float"
      [] op = "get_boolean" -> "bool"
      [] op = "get_string"  -> "str"
      [] op = "get_dict"    -> "Mapping"
      [] op = "get_uri"     -> "UriSpec"
      [] op = "get_list"    -> "list"

Converter(op) ==
    CASE op = "get_int"     -> "int"
      [] op = "get_float"   -> "float"
      [] op = "get_boolean" -> "strtobool"
      [] op = "get_string"  -> "str"
      [] op = "get_dict"    -> "convert_to_dict"
      [] op = "get_uri"     -> "parse_uri_spec"
      [] op = "get_list"    -> "parse_list"

---------------------------------------------------------------------------
(* '{}'.format(value): str(value) *)

RECURSIVE NatText(_)
NatText(n) == IF n < 10 THEN <<Digits[n + 1]>> ELSE NatText(n \div 10) \o <<Digits[(n % 10) + 1]>>

IntText(n) == IF n < 0 THEN <<"-">> \o NatText(-n) ELSE NatText(n)

(* The d digits of n, zeros in front. *)
RECURSIVE PadText(_, _)
PadText(n, d) == IF d = 0 THEN <<>> ELSE PadText(n \div 10, d - 1) \o <<Digits[(n % 10) + 1]>>

(* repr of a float in positional notation ("42.0", "4.2"); floats of the   *)
(* model are not negative.                                                 *)
FloatText(m, d) ==
    IF d = 0 THEN NatText(m) \o <<".", "0">>
    ELSE NatText(m \div Pow10(d)) \o <<".">> \o PadText(m % Pow10(d), d)

RECURSIVE Repr(_)
RECURSIVE ReprItems(_, _)
(* repr(value); a str in single quotes *)
Repr(value) ==
    CASE value.t = "none"  -> <<"N", "o", "n", "e">>
      [] value.t = "bool"  -> IF value.n = 1 THEN <<"T", "r", "u", "e">>
                              ELSE <<"F", "a", "l", "s", "e">>
      [] value.t = "int"   -> IntText(value.n)
      [] value.t = "float" -> FloatText(value.n, value.e)
      [] value.t = "str"   -> <<"'">> \o value.s \o <<"'">>
      [] value.t = "list"  -> <<"[">> \o ReprItems(value.l, "list") \o <<"]">>
      [] value.t = "dict"  -> <<"{">> \o ReprItems(value.l, "dict") \o <<"}">>
      [] value.t = "uri"   ->
            <<"U", "r", "i", "S", "p", "e", "c", "(", "u", "s", "e", "r", "=">>
                \o Repr(value.l[1])
                \o <<",", " ", "p", "a", "s", "s", "w", "o", "r", "d", "=">>
                \o Repr(value.l[2])
                \o <<",", " ", "h", "o", "s", "t", "=">> \o Repr(value.l[3]) \o <<")">>

(* The elements of a list, or the key: value pairs of a dict, ", " between *)
ReprItems(items, of) ==
    IF items = <<>> THEN <<>>
    ELSE IF of = "list"
    THEN Repr(items[1])
             \o (IF Len(items) > 1 THEN <<",", " ">> ELSE <<>>)
             \o ReprItems(Tail(items), of)
    ELSE Repr(items[1]) \o <<":", " ">> \o Repr(items[2])
             \o (IF Len(items) > 2 THEN <<",", " ">> ELSE <<>>)
             \o ReprItems(SubSeq(items, 3, Len(items)), of)

Format(value) == IF value.t = "str" THEN value.s ELSE Repr(value)

---------------------------------------------------------------------------
(* The other methods *)

(* get_requested_params with the include_locals test left out *)
get_requested_params_all_locals(self, include_secrets, include_locals, to_str) ==
    LET keys == {key \in self.requested_keys :
                    include_secrets \/ key \notin self.secret_keys}
    IN  [self |-> self,
         m |-> [key \in keys |->
                   IF to_str THEN PyStr(Format(self.params[key])) ELSE self.params[key]]]

(* get_requested_params with each exported entry popped from the mapping *)
get_requested_params_pops(self, include_secrets, include_locals, to_str) ==
    LET keys == {key \in self.requested_keys :
                    /\ include_secrets \/ key \notin self.secret_keys
                    /\ include_locals \/ key \notin self.local_keys}
    IN  [self |-> [self EXCEPT !.params = [k \in (DOMAIN self.params) \ keys |->
                                              self.params[k]],
                               !.requested_keys = @ \ keys],
         m |-> [key \in keys |->
                   IF to_str THEN PyStr(Format(self.params[key])) ELSE self.params[key]]]

(* get_requested_params: the exported mapping *)
get_requested_params(self, include_secrets, include_locals, to_str) ==
    LET keys == {key \in self.requested_keys :
                    /\ include_secrets \/ key \notin self.secret_keys
                    /\ include_locals \/ key \notin self.local_keys}
    IN  [self |-> self,
         m |-> [key \in keys |->
                   IF to_str THEN PyStr(Format(self.params[key])) ELSE self.params[key]]]

(* k.startswith(term), k.endswith(term) *)
StartsWith(k, term) == Len(term) <= Len(k) /\ SubSeq(k, 1, Len(term)) = term

EndsWith(k, term) == Len(term) <= Len(k) /\ SubSeq(k, Len(k) - Len(term) + 1, Len(k)) = term

params_startswith(self, term) == {k \in DOMAIN self.params : StartsWith(k, term)}

params_endswith(self, term) == {k \in DOMAIN self.params : EndsWith(k, term)}

---------------------------------------------------------------------------
(* The operations as actions.  A call c is the record of a getter's        *)
(* arguments; C is the set of calls the caller may make; with `record` the *)
(* history variable rec keeps the call.                                    *)

Call(op, key, is_list, is_optional, is_secret, is_local, default, options) ==
    [op |-> op, key |-> key, is_list |-> is_list, is_optional |-> is_optional,
     is_secret |-> is_secret, is_local |-> is_local, default |-> default,
     options |-> options]

NoCall == Call("none", <<>>, FALSE, FALSE, FALSE, FALSE, PyNone, PyNone)

NoRet ==
    [op |-> "none", arg |-> <<>>, kind |-> "none", err |-> "none", v |-> PyNone,
     about |-> PyNone, m |-> EmptyMap, ks |-> {}, flags |-> <<>>]

(* The instance becomes `self`. *)
Becomes(self) ==
    /\ params' = self.params
    /\ requested_keys' = self.requested_keys
    /\ secret_keys' = self.secret_keys
    /\ local_keys' = self.local_keys

(* A getter call c ends with outcome out. *)
Finish(c, out, record) ==
    /\ Becomes(out.self)
    /\ ret' = [NoRet EXCEPT !.op = c.op, !.arg = c.key, !.kind = out.kind,
                            !.err = out.err, !.v = out.v, !.about = out.about]
    /\ rec' = IF record THEN c ELSE rec
    /\ failed' = IF record /\ out.kind = "error" THEN failed \cup {c.key} ELSE failed
    /\ UNCHANGED <<decode_iterations, params0, builder>>

GetInt(C, record) ==
    \E c \in C :
        /\ c.op = "get_int"
        /\ Finish(c, get_int(Self, c.key, c.is_list, c.is_optional, c.is_secret,
                             c.is_local, c.default, c.options), record)

GetFloat(C, record) ==
    \E c \in C :
        /\ c.op = "get_float"
        /\ Finish(c, get_float(Self, c.key, c.is_list, c.is_optional, c.is_secret,
                               c.is_local, c.default, c.options), record)

GetBoolean(C, record) ==
    \E c \in C :
        /\ c.op = "get_boolean"
        /\ Finish(c, get_boolean(Self, c.key, c.is_list, c.is_optional, c.is_secret,
                                 c.is_local, c.default, c.options), record)

GetString(C, record) ==
    \E c \in C :
        /\ c.op = "get_string"
        /\ Finish(c, get_string(Self, c.key, c.is_list, c.is_optional, c.is_secret,
                                c.is_local, c.default, c.options), record)

GetDict(C, record) ==
    \E c \in C :
        /\ c.op = "get_dict"
        /\ Finish(c, get_dict(Self, c.key, c.is_list, c.is_optional, c.is_secret,
                              c.is_local, c.default, c.options), record)

GetUri(C, record) ==
    \E c \in C :
        /\ c.op = "get_uri"
        /\ Finish(c, get_uri(Self, c.key, c.is_list, c.is_optional, c.is_secret,
                             c.is_local, c.default, c.options), record)

GetList(C, record) ==
    \E c \in C :
        /\ c.op = "get_list"
        /\ ~c.is_list
        /\ Finish(c, get_list(Self, c.key, c.is_optional, c.is_secret,
                              c.is_local, c.default, c.options), record)

(* get_requested_params returned out.m. *)
Exported(out, flags) ==
    /\ Becomes(out.self)
    /\ ret' = [NoRet EXCEPT !.op = "get_requested_params", !.kind = "return",
                            !.m = out.m, !.flags = flags]
    /\ UNCHANGED <<decode_iterations, params0, builder, rec, failed>>

GetRequestedParams ==
    \E include_secrets, include_locals, to_str \in BOOLEAN :
        Exported(get_requested_params(Self, include_secrets, include_locals, to_str),
                 <<include_secrets, include_locals, to_str>>)

DecodeKey ==
    <<"_", "P", "O", "L", "Y", "A", "X", "O", "N", "_", "D", "E", "C", "O", "D", "E",
      "_", "I", "T", "E", "R", "A", "T", "I", "O", "N">>

(* The first read of decode_iterations, out being the outcome of its       *)
(* get_int: a value returned is stored, an error leaves nothing stored.    *)
Compute(out) ==
    /\ Becomes(out.self)
    /\ ret' = [NoRet EXCEPT !.op = "decode_iterations", !.arg = DecodeKey,
                            !.kind = out.kind, !.err = out.err,
                            !.v = out.v, !.about = out.about]
    /\ decode_iterations' = IF out.kind = "return" THEN <<out.v>> ELSE <<>>

(* The cached property decode_iterations: computed by get_int on the first *)
(* read that succeeds, the stored value afterwards.                        *)
DecodeIterations ==
    /\ IF decode_iterations # <<>>
       THEN /\ ret' = [NoRet EXCEPT !.op = "decode_iterations", !.arg = DecodeKey,
                                    !.kind = "return", !.v = decode_iterations[1]]
            /\ UNCHANGED <<params, requested_keys, secret_keys, local_keys,
                           decode_iterations>>
       ELSE Compute(get_int(Self, DecodeKey, FALSE, TRUE, FALSE, FALSE, PyInt(1), PyNone))
    /\ UNCHANGED <<params0, builder, rec, failed>>

(* What a call of _decode on value leaves in ret, passes being the outcome *)
(* of its loop.                                                            *)
Passed(value, passes, explicit) ==
    ret' = [NoRet EXCEPT !.op = "_decode", !.arg = value,
                         !.kind = IF passes.ok THEN "return" ELSE "error",
                         !.err = passes.exc,
                         !.v = IF passes.ok THEN PyStr(passes.t) ELSE PyNone,
                         !.flags = <<explicit>>]

(* _decode reading self.decode_iterations for the first time, out being    *)
(* the outcome of the property's get_int.                                  *)
DecodeComputed(out, value, explicit) ==
    /\ Becomes(out.self)
    /\ decode_iterations' = IF out.kind = "return" THEN <<out.v>> ELSE <<>>
    /\ IF out.kind = "return"
       THEN Passed(value, decode_passes(value, out.v.n), explicit)
       ELSE ret' = [NoRet EXCEPT !.op = "_decode", !.arg = value, !.kind = "error",
                                 !.err = out.err, !.about = out.about,
                                 !.flags = <<explicit>>]

(* _decode(value) and _decode(value, iteration): iteration = iteration or  *)
(* self.decode_iterations, then that many passes.  explicit tells whether  *)
(* the caller gave the second argument.                                    *)
Decode(Values, Iterations) ==
    \E value \in Values, explicit \in BOOLEAN :
        \E iteration \in (IF explicit THEN Iterations ELSE {PyInt(DefaultIteration)}) :
            /\ IF Truthy(iteration)
               THEN /\ Passed(value, decode_passes(value, iteration.n), explicit)
                    /\ UNCHANGED <<params, requested_keys, secret_keys, local_keys,
                                   decode_iterations>>
               ELSE IF decode_iterations # <<>>
               THEN /\ Passed(value, decode_passes(value, decode_iterations[1].n), explicit)
                    /\ UNCHANGED <<params, requested_keys, secret_keys, local_keys,
                                   decode_iterations>>
               ELSE DecodeComputed(get_int(Self, DecodeKey, FALSE, TRUE, FALSE, FALSE,
                                           PyInt(1), PyNone), value, explicit)
            /\ UNCHANGED <<params0, builder, rec, failed>>

(* _encode(value) *)
Encode(Values) ==
    \E value \in Values :
        /\ ret' = [NoRet EXCEPT !.op = "_encode", !.arg = value,
                                !.kind = IF encode(value).ok THEN "return" ELSE "error",
                                !.err = encode(value).exc,
                                !.v = IF encode(value).ok THEN PyStr(encode(value).t)
                                      ELSE PyNone]
        /\ UNCHANGED <<params, requested_keys, secret_keys, local_keys,
                       decode_iterations, params0, builder, rec, failed>>

ParamsStartswith(Terms) ==
    \E term \in Terms :
        /\ ret' = [NoRet EXCEPT !.op = "params_startswith", !.arg = term,
                                !.kind = "return", !.ks = params_startswith(Self, term)]
        /\ UNCHANGED <<params, requested_keys, secret_keys, local_keys,
                       decode_iterations, params0, builder, rec, failed>>

ParamsEndswith(Terms) ==
    \E term \in Terms :
        /\ ret' = [NoRet EXCEPT !.op = "params_endswith", !.arg = term,
                                !.kind = "return", !.ks = params_endswith(Self, term)]
        /\ UNCHANGED <<params, requested_keys, secret_keys, local_keys,
                       decode_iterations, params0, builder, rec, failed>>

ParseUriSpec(Texts) ==
    \E uri_spec \in Texts :
        /\ ret' = [NoRet EXCEPT !.op = "parse_uri_spec", !.arg = uri_spec,
                                !.kind = IF parse_uri_spec(uri_spec).ok THEN "return"
                                         ELSE "error",
                                !.err = IF parse_uri_spec(uri_spec).ok THEN "none"
                                        ELSE "uri_spec",
                                !.v = parse_uri_spec(uri_spec).v,
                                !.about = IF parse_uri_spec(uri_spec).ok THEN PyNone
                                          ELSE PyStr(uri_spec)]
        /\ UNCHANGED <<params, requested_keys, secret_keys, local_keys,
                       decode_iterations, params0, builder, rec, failed>>

(* Construction from the keyword arguments kwargs. *)
Construct(kwargs) ==
    /\ params = ConfigManager(kwargs).params
    /\ requested_keys = ConfigManager(kwargs).requested_keys
    /\ secret_keys = ConfigManager(kwargs).secret_keys
    /\ local_keys = ConfigManager(kwargs).local_keys
    /\ decode_iterations = <<>>
    /\ ret = NoRet
    /\ params0 = kwargs
    /\ failed = {}

---------------------------------------------------------------------------
(* NotebookDockerBuilder._check_pulse *)

(* The row of the builder's project in the Project table: none, or a       *)
(* project with its has_notebook and whether its notebook is truthy.       *)
NoProject == [exists |-> FALSE, has_notebook |-> FALSE, notebook |-> FALSE]

Project(has_notebook, notebook) ==
    [exists |-> TRUE, has_notebook |-> has_notebook, notebook |-> notebook]

(* What _check_pulse returns, and whether it ran Project.objects.get. *)
Pulse(check_pulse, stop, looked_up) ==
    [check_pulse |-> check_pulse, stop |-> stop, looked_up |-> looked_up]

(* _check_pulse with the project looked up from CHECK_INTERVAL on *)
check_pulse_from_interval(CHECK_INTERVAL, project, check_pulse) ==
    IF check_pulse >= CHECK_INTERVAL
    THEN IF ~project.exists THEN Pulse(check_pulse, TRUE, TRUE)
         ELSE IF ~project.has_notebook \/ ~project.notebook
         THEN Pulse(check_pulse, TRUE, TRUE)
         ELSE Pulse(0, FALSE, TRUE)
    ELSE Pulse(check_pulse, FALSE, FALSE)

check_pulse(CHECK_INTERVAL, project, pulse) ==
    IF pulse > CHECK_INTERVAL
    THEN IF ~project.exists THEN Pulse(pulse, TRUE, TRUE)
         ELSE IF ~project.has_notebook \/ ~project.notebook
         THEN Pulse(pulse, TRUE, TRUE)
         ELSE Pulse(0, FALSE, TRUE)
    ELSE Pulse(pulse, FALSE, FALSE)

NoPulse == [arg |-> 0, project |-> NoProject, called |-> FALSE, out |-> Pulse(0, FALSE, FALSE)]

(* A builder with its CHECK_INTERVAL, the table row of its project, and    *)
(* its last _check_pulse call: the argument, the row at the time, the      *)
(* result.                                                                 *)
Builder(CHECK_INTERVAL, project, last) ==
    [CHECK_INTERVAL |-> CHECK_INTERVAL, project |-> project, last |-> last]

NoBuilder == Builder(0, NoProject, NoPulse)

(* self._check_pulse(check_pulse) *)
CheckPulse(Counters) ==
    \E pulse \in Counters :
        /\ builder' = [builder EXCEPT !.last =
                          [arg |-> pulse, project |-> builder.project, called |-> TRUE,
                           out |-> check_pulse(builder.CHECK_INTERVAL, builder.project,
                                               pulse)]]
        /\ UNCHANGED <<params, requested_keys, secret_keys, local_keys,
                       decode_iterations, ret, params0, rec, failed>>

(* Another process deletes the project, or starts or stops its notebook. *)
ProjectChanges(Rows) ==
    \E row \in Rows :
        /\ row # builder.project
        /\ builder' = [builder EXCEPT !.project = row]
        /\ UNCHANGED <<params, requested_keys, secret_keys, local_keys,
                       decode_iterations, ret, params0, rec, failed>>

---------------------------------------------------------------------------
(* The inputs: keys, stored values, arguments of the calls *)

KeyA == <<"A">>

KeyB == <<"B">>

Txt42 == <<"4", "2">>

Txt7 == <<"7">>

TxtX == <<"x">>

(* "[1, "x"]" *)
TxtListBad == <<"[", "1", ",", " ", "\"", "x", "\"", "]">>

Present(values) == {<<v>> : v \in values}

Absent == <<>>

(* The mapping with KeyA -> a[1], KeyB -> b[1], DecodeKey -> d[1], each    *)
(* only when the choice is not Absent.                                     *)
MakeParams(a, b, d) ==
    [k \in (IF a = Absent THEN {} ELSE {KeyA}) \cup (IF b = Absent THEN {} ELSE {KeyB})
               \cup (IF d = Absent THEN {} ELSE {DecodeKey}) |->
        IF k = KeyA THEN a[1] ELSE IF k = KeyB THEN b[1] ELSE d[1]]

Getters ==
    {"get_int", "get_float", "get_boolean", "get_string", "get_dict", "get_uri", "get_list"}

CallSet(ops, keys, optionals, flags, defaults, optionss) ==
    {Call(op, key, is_list, is_optional, f[1], f[2], default, options) :
        op \in ops, key \in keys, is_list \in BOOLEAN, is_optional \in optionals,
        f \in flags, default \in defaults, options \in optionss}

Opts42 == PyList(<<PyInt(42)>>)

OptsTxt == PyList(<<PyStr(Txt42), PyStr(TxtX)>>)

(* Spec: one instance over its whole life, every operation, every          *)
(* combination of is_secret and is_local.                                  *)
LifeA == {Absent} \cup Present({PyStr(Txt42), PyStr(TxtX), PyInt(42), PyStr(TxtListBad)})

LifeB == {Absent} \cup Present({PyStr(Txt7)})

LifeD == {Absent} \cup Present({PyStr(<<"2">>)})

LifeCalls ==
    CallSet(Getters, {KeyA}, BOOLEAN, BOOLEAN \X BOOLEAN, {PyNone}, {PyNone, OptsTxt})
        \cup CallSet({"get_int", "get_string"}, {KeyB}, {FALSE}, BOOLEAN \X BOOLEAN,
                     {PyNone}, {PyNone})

LifeTerms == {<<"A">>, <<"_">>, <<"N">>}

Init ==
    /\ \E a \in LifeA, b \in LifeB, d \in LifeD : Construct(MakeParams(a, b, d))
    /\ rec = NoCall
    /\ builder = NoBuilder

Next ==
    \/ GetInt(LifeCalls, FALSE)
    \/ GetFloat(LifeCalls, FALSE)
    \/ GetBoolean(LifeCalls, FALSE)
    \/ GetString(LifeCalls, FALSE)
    \/ GetDict(LifeCalls, FALSE)
    \/ GetUri(LifeCalls, FALSE)
    \/ GetList(LifeCalls, FALSE)
    \/ GetRequestedParams
    \/ DecodeIterations
    \/ ParamsStartswith(LifeTerms)
    \/ ParamsEndswith(LifeTerms)

Spec == Init /\ [][Next]_vars

---------------------------------------------------------------------------
(* SpecCall: one getter call on a fresh instance, the stored value, the    *)
(* getter and its arguments drawn from the sets below.                     *)

TxtMaybe == <<"m", "a", "y", "b", "e">>

TxtUri == <<"a", ":", "b", "@", "c">>

TxtDict == <<"{", "\"", "a", "\"", ":", " ", "1", "}">>

TxtListMixed == <<"[", "\"", "4", "\"", ",", " ", "2", "]">>

ListMixed == PyList(<<PyStr(<<"4">>), PyInt(2)>>)

CallStrings ==
    {Txt42, TxtMaybe, <<" ", "4", "2">>, <<"4", ".", "2">>, TxtX, <<"y">>, TxtUri, <<"a", "@", "c">>, TxtListMixed, TxtListBad,
     <<"[", "]">>, TxtDict, <<"{", "}">>, <<"a", ",", " ", "b", " ", ",", ",", " ", "c">>, <<>>}

CallNatives ==
    {PyInt(42), PyBool(TRUE), PyFloat(42, 1), ListMixed, PyList(<<>>),
     PyDict(<<PyStr(<<"a">>), PyInt(1)>>), PyNone, UriSpec(<<"a">>, <<"b">>, <<"c">>)}

CallA == {Absent} \cup Present({PyStr(text) : text \in CallStrings} \cup CallNatives)

CallDefaults == {PyNone, PyInt(7), PyList(<<PyStr(<<"4">>)>>), PyList(<<>>)}

CallOptions == {PyNone, PyList(<<>>), Opts42, OptsTxt}

CallCalls ==
    CallSet(Getters, {KeyA}, BOOLEAN, {<<FALSE, FALSE>>, <<TRUE, TRUE>>},
            CallDefaults, CallOptions)

InitCall ==
    /\ \E a \in CallA : Construct(MakeParams(a, Absent, Absent))
    /\ rec \in {c \in CallCalls : c.op = "get_list" => ~c.is_list}
    /\ builder = NoBuilder

NextCall ==
    \/ ret.op = "none" /\ GetInt({rec}, FALSE)
    \/ ret.op = "none" /\ GetFloat({rec}, FALSE)
    \/ ret.op = "none" /\ GetBoolean({rec}, FALSE)
    \/ ret.op = "none" /\ GetString({rec}, FALSE)
    \/ ret.op = "none" /\ GetDict({rec}, FALSE)
    \/ ret.op = "none" /\ GetUri({rec}, FALSE)
    \/ ret.op = "none" /\ GetList({rec}, FALSE)

SpecCall == InitCall /\ [][NextCall]_vars

---------------------------------------------------------------------------
(* SpecSeq: sequences of getter calls on one instance, each call kept in   *)
(* rec.                                                                    *)

SeqA == {Absent} \cup Present({PyStr(Txt42), PyStr(TxtX), PyInt(42), PyStr(TxtListMixed)})

SeqB == {Absent} \cup Present({PyStr(Txt7), PyStr(TxtDict)})

SeqCalls ==
    CallSet(Getters, {KeyA, KeyB}, BOOLEAN, {<<FALSE, FALSE>>}, {PyNone, PyInt(7)},
            {PyNone, OptsTxt})

InitSeq ==
    /\ \E a \in SeqA, b \in SeqB : Construct(MakeParams(a, b, Absent))
    /\ rec = NoCall
    /\ builder = NoBuilder

NextSeq ==
    \/ GetInt(SeqCalls, TRUE)
    \/ GetFloat(SeqCalls, TRUE)
    \/ GetBoolean(SeqCalls, TRUE)
    \/ GetString(SeqCalls, TRUE)
    \/ GetDict(SeqCalls, TRUE)
    \/ GetUri(SeqCalls, TRUE)
    \/ GetList(SeqCalls, TRUE)

SpecSeq == InitSeq /\ [][NextSeq]_vars

---------------------------------------------------------------------------
(* SpecUri: parse_uri_spec on every text of at most MaxUriLen characters   *)
(* over UriChars, and on the texts of UriExamples.                         *)

MaxUriLen == 5

UriChars == {"a", ":", "@"}

TxtAlice == <<"a", "l", "i", "c", "e">>

TxtSecret == <<"s", "e", "c", "r", "e", "t">>

TxtHost == <<"d", "b", ".", "l", "o", "c", "a", "l">>

(* "alice:secret@db.local", "alice@db.local", "alice:sec:ret@db.local" *)
UriGood == TxtAlice \o <<":">> \o TxtSecret \o <<"@">> \o TxtHost

UriNoPassword == TxtAlice \o <<"@">> \o TxtHost

UriTwoColons ==
    TxtAlice \o <<":", "s", "e", "c", ":", "r", "e", "t", "@">> \o TxtHost

UriExamples == {UriGood, UriNoPassword, UriTwoColons}

UriTexts == UNION {[1..k -> UriChars] : k \in 0..MaxUriLen} \cup UriExamples

InitUri ==
    /\ Construct(MakeParams(Absent, Absent, Absent))
    /\ rec = NoCall
    /\ builder = NoBuilder

NextUri == ParseUriSpec(UriTexts)

SpecUri == InitUri /\ [][NextUri]_vars

---------------------------------------------------------------------------
(* SpecDecode: _encode and _decode on every text of at most MaxTextLen     *)
(* characters over "a", "Q", "=" and on the texts of DecodeExamples, the   *)
(* mapping holding _POLYAXON_DECODE_ITERATION or not.                      *)

MaxTextLen == 3

DecodeChars == {97, 81, 61}

(* "hello" *)
TxtHello == <<104, 101, 108, 108, 111>>

(* "hello", and "a" encoded once, twice and three times *)
DecodeExamples ==
    {TxtHello, encode(<<97>>).t, encode(encode(<<97>>).t).t,
     encode(encode(encode(<<97>>).t).t).t}

DecodeTexts == UNION {[1..k -> DecodeChars] : k \in 0..MaxTextLen} \cup DecodeExamples

DecodeValues == DecodeTexts \cup {encode(t).t : t \in DecodeTexts}

DecodeIterationArgs == {PyNone, PyInt(0), PyInt(1), PyInt(2)}

DecodeD == {Absent} \cup Present({PyStr(<<"2">>), PyStr(<<"x">>)})

InitDecode ==
    /\ \E d \in DecodeD : Construct(MakeParams(Absent, Absent, d))
    /\ rec = NoCall
    /\ builder = NoBuilder

NextDecode ==
    \/ Encode(DecodeTexts)
    \/ Decode(DecodeValues, DecodeIterationArgs)
    \/ DecodeIterations

SpecDecode == InitDecode /\ [][NextDecode]_vars

---------------------------------------------------------------------------
(* SpecPulse: _check_pulse called with counters up to MaxPulse while the   *)
(* project's row changes, for each CHECK_INTERVAL of PulseIntervals.       *)

MaxPulse == 4

PulseIntervals == {1, 2, 3}

PulseRows == {NoProject} \cup {Project(h, n) : h \in BOOLEAN, n \in BOOLEAN}

InitPulse ==
    /\ Construct(EmptyMap)
    /\ rec = NoCall
    /\ \E interval \in PulseIntervals, row \in PulseRows :
           builder = Builder(interval, row, NoPulse)

NextPulse ==
    \/ CheckPulse(0..MaxPulse)
    \/ ProjectChanges(PulseRows)

SpecPulse == InitPulse /\ [][NextPulse]_vars

---------------------------------------------------------------------------
(* SpecFlags: getter calls on two present keys with every choice of        *)
(* is_secret and is_local, the last call's arguments kept in rec, and      *)
(* exports in between.                                                     *)

FlagsA == Present({PyStr(Txt42)})

FlagsB == Present({PyStr(Txt7)})

FlagsCalls ==
    CallSet(Getters, {KeyA, KeyB}, {FALSE}, BOOLEAN \X BOOLEAN, {PyNone}, {PyNone})

InitFlags ==
    /\ \E a \in FlagsA, b \in FlagsB : Construct(MakeParams(a, b, Absent))
    /\ rec = NoCall
    /\ builder = NoBuilder

NextFlags ==
    \/ GetInt(FlagsCalls, TRUE)
    \/ GetFloat(FlagsCalls, TRUE)
    \/ GetBoolean(FlagsCalls, TRUE)
    \/ GetString(FlagsCalls, TRUE)
    \/ GetDict(FlagsCalls, TRUE)
    \/ GetUri(FlagsCalls, TRUE)
    \/ GetList(FlagsCalls, TRUE)
    \/ GetRequestedParams

SpecFlags == InitFlags /\ [][NextFlags]_vars

---------------------------------------------------------------------------
(* The claims *)

KeySets == <<requested_keys, secret_keys, local_keys>>

(* C1: a getter call that fails with ConfigurationError leaves             *)
(* requested_keys, secret_keys and local_keys exactly as they were before  *)
(* the call.                                                               *)
C1_FailedCallLeavesKeySets ==
    [][(ret'.op \in Getters /\ ret'.kind = "error") => UNCHANGED KeySets]_vars

(* C2: on a key absent from the mapping every typed getter raises the      *)
(* missing-key error when is_optional is false, and when it is true        *)
(* returns the default unchanged, whatever it is, recording nothing        *)
(* (SpecCall: the call is the first on the instance).                      *)
C2_AbsentKeyMissingOrDefault ==
    (ret.op \in Getters /\ ~HasKey(Self, rec.key)) =>
        /\ ~rec.is_optional => ret.kind = "error" /\ ret.err = "missing"
        /\ rec.is_optional => ret.kind = "return" /\ ret.v = rec.default
        /\ requested_keys = {} /\ secret_keys = {} /\ local_keys = {}

(* The stored value of the call's key as the getter's converter parses it  *)
(* (a stored str), or as it is (a value of the target type).               *)
Parses(call) ==
    /\ HasKey(Self, call.key)
    /\ IF IsInstance(params[call.key], "str")
       THEN TypeConvert(Converter(call.op), params[call.key].s).ok
       ELSE IsInstance(params[call.key], TargetType(call.op))

Parsed(call) ==
    IF IsInstance(params[call.key], "str")
    THEN TypeConvert(Converter(call.op), params[call.key].s).v
    ELSE params[call.key]

(* C3: with options given, a single-value getter on a present key whose    *)
(* value parses returns the parsed value when the parsed value is one of   *)
(* the options and raises when it is not.                                  *)
C3_OptionsOnParsedValue ==
    (ret.op \in Getters /\ ~rec.is_list /\ Truthy(rec.options) /\ Parses(rec)) =>
        IF PyIn(Parsed(rec), rec.options)
        THEN ret.kind = "return" /\ ret.v = Parsed(rec)
        ELSE ret.kind = "error"

(* C4: in every reachable state secret_keys and local_keys are subsets of  *)
(* requested_keys, and requested_keys holds only keys of the mapping.      *)
C4_KeySetsNested ==
    /\ secret_keys \subseteq requested_keys
    /\ local_keys \subseteq requested_keys
    /\ requested_keys \subseteq DOMAIN params

(* A state after secret, local and failing calls. *)
C4_Witness ==
    /\ secret_keys = {KeyA}
    /\ local_keys = {KeyB}
    /\ requested_keys = {KeyA, KeyB}
    /\ ret.op \in Getters /\ ret.kind = "error"

(* C5: get_requested_params(include_secrets, include_locals) returns a     *)
(* mapping whose keys are requested_keys without secret_keys (unless       *)
(* include_secrets) and without local_keys (unless include_locals), each   *)
(* key with its stored value; so after a secret fetch of A and a plain     *)
(* fetch of B the default export holds B alone and the export with         *)
(* include_secrets holds both.                                             *)
C5_ExportedKeys ==
    (ret.op = "get_requested_params" /\ ~ret.flags[3]) =>
        /\ DOMAIN ret.m = (requested_keys \ (IF ret.flags[1] THEN {} ELSE secret_keys))
                              \ (IF ret.flags[2] THEN {} ELSE local_keys)
        /\ \A key \in DOMAIN ret.m : ret.m[key] = params[key]
        /\ (requested_keys = {KeyA, KeyB} /\ secret_keys = {KeyA} /\ local_keys = {}) =>
               DOMAIN ret.m = IF ret.flags[1] THEN {KeyA, KeyB} ELSE {KeyB}

(* The default export after a secret fetch of A and a plain fetch of B. *)
C5_Witness ==
    /\ requested_keys = {KeyA, KeyB} /\ secret_keys = {KeyA} /\ local_keys = {}
    /\ ret.op = "get_requested_params" /\ ret.flags = <<FALSE, FALSE, FALSE>>
    /\ DOMAIN ret.m = {KeyB}

(* What a getter returns for the value v its single-value engine returned: *)
(* get_dict gives its default for an empty dict, the others give v.        *)
Given(call, v) ==
    IF call.op = "get_dict" /\ ~Truthy(v) THEN call.default ELSE v

(* C6: for a present key the single-value engine takes a stored str        *)
(* through the getter's converter and returns the converted value          *)
(* (ConfigurationError when the conversion fails), returns a stored value  *)
(* of the target type as it is, and raises ConfigurationError for any      *)
(* other stored value; the only other outcome is the ConfigurationError of *)
(* a call whose options reject the stored value.  get_int gives 42 for     *)
(* "42" and for 42, get_boolean rejects "maybe".                           *)
C6_SingleValueDispatch ==
    (ret.op \in Getters /\ ~rec.is_list /\ HasKey(Self, rec.key)) =>
        /\ IF check_options(params[rec.key], rec.options)
                /\ (IsInstance(params[rec.key], "str")
                        \/ IsInstance(params[rec.key], TargetType(rec.op)))
           THEN ret.kind = "error" /\ ret.err = "options"
           ELSE IF IsInstance(params[rec.key], "str")
           THEN IF TypeConvert(Converter(rec.op), params[rec.key].s).ok
                THEN /\ ret.kind = "return"
                     /\ ret.v = Given(rec, TypeConvert(Converter(rec.op),
                                                       params[rec.key].s).v)
                ELSE ret.kind = "error" /\ ret.err \in {"convert", "uri_spec"}
           ELSE IF IsInstance(params[rec.key], TargetType(rec.op))
           THEN ret.kind = "return" /\ ret.v = Given(rec, params[rec.key])
           ELSE ret.kind = "error" /\ ret.err = "shape"
        /\ (rec.op = "get_int" /\ rec.options = PyNone
                /\ params[rec.key] \in {PyStr(Txt42), PyInt(42)}) =>
               ret.kind = "return" /\ ret.v = PyInt(42)
        /\ (rec.op = "get_boolean" /\ params[rec.key] = PyStr(TxtMaybe)) =>
               ret.kind = "error"

(* get_int on a stored "42" returned the integer 42. *)
C6_Witness ==
    /\ ret.op = "get_int" /\ ~rec.is_list
    /\ HasKey(Self, KeyA) /\ params[KeyA] = PyStr(Txt42)
    /\ ret.kind = "return" /\ ret.v = PyInt(42)

(* The value the list engine goes through: the stored list, or what        *)
(* json.loads makes of the stored str.                                     *)
Decoded(call) ==
    IF IsInstance(params[call.key], "str") THEN JsonLoads(params[call.key].s).v
    ELSE params[call.key]

(* Whether the list engine can take element v for the call's getter. *)
Takes(call, v) ==
    IF IsInstance(v, "str") THEN TypeConvert(Converter(call.op), v.s).ok
    ELSE IsInstance(v, TargetType(call.op))

Taken(call, v) ==
    IF IsInstance(v, "str") THEN TypeConvert(Converter(call.op), v.s).v ELSE v

(* C7: when the value of a present key decodes to a non-empty list (and    *)
(* the options, if any, let the stored value through), the typed list      *)
(* getter returns a list of the same length and order, each str element    *)
(* converted and each element of the target type kept; if some element is  *)
(* a str that does not convert, or neither a str nor of the target type,   *)
(* it raises ConfigurationError naming such an element and returns no      *)
(* list.                                                                   *)
C7_ListElements ==
    (/\ ret.op \in Getters \ {"get_list"} /\ rec.is_list /\ HasKey(Self, rec.key)
     /\ ~check_options(params[rec.key], rec.options)
     /\ IsInstance(Decoded(rec), "list") /\ Truthy(Decoded(rec))) =>
        IF \A i \in 1..Len(Decoded(rec).l) : Takes(rec, Decoded(rec).l[i])
        THEN /\ ret.kind = "return"
             /\ IsInstance(ret.v, "list")
             /\ Len(ret.v.l) = Len(Decoded(rec).l)
             /\ \A i \in 1..Len(ret.v.l) : ret.v.l[i] = Taken(rec, Decoded(rec).l[i])
        ELSE /\ ret.kind = "error"
             /\ ret.v = PyNone
             /\ \E i \in 1..Len(Decoded(rec).l) :
                   ~Takes(rec, Decoded(rec).l[i]) /\ ret.about = Decoded(rec).l[i]

(* get_int(is_list=True) on a stored '["4", 2]' returned [4, 2]. *)
C7_Witness ==
    /\ ret.op = "get_int" /\ rec.is_list
    /\ HasKey(Self, KeyA) /\ params[KeyA] = PyStr(TxtListMixed)
    /\ ret.kind = "return" /\ ret.v = PyList(<<PyInt(4), PyInt(2)>>)

(* The number of characters c in text. *)
Count(text, c) == Cardinality({i \in 1..Len(text) : text[i] = c})

(* The position of the first character c in text. *)
First(text, c) == CHOOSE i \in 1..Len(text) : text[i] = c /\ \A j \in 1..(i - 1) : text[j] # c

(* C8: parse_uri_spec accepts a text exactly when it holds one "@" and the *)
(* part before the "@" holds one ":"; it then returns UriSpec(user,        *)
(* password, host) with user the text before the ":", password the text    *)
(* between ":" and "@", host the text after "@"; every other text raises   *)
(* ConfigurationError.  alice:secret@db.local gives alice, secret,         *)
(* db.local; alice@db.local and alice:sec:ret@db.local raise.              *)
C8_UriGrammar ==
    ret.op = "parse_uri_spec" =>
        /\ IF /\ Count(ret.arg, "@") = 1
              /\ Count(SubSeq(ret.arg, 1, First(ret.arg, "@") - 1), ":") = 1
           THEN /\ ret.kind = "return"
                /\ ret.v = UriSpec(SubSeq(ret.arg, 1, First(ret.arg, ":") - 1),
                                   SubSeq(ret.arg, First(ret.arg, ":") + 1,
                                          First(ret.arg, "@") - 1),
                                   SubSeq(ret.arg, First(ret.arg, "@") + 1, Len(ret.arg)))
           ELSE ret.kind = "error" /\ ret.err = "uri_spec"
        /\ ret.arg = UriGood =>
               ret.v = UriSpec(TxtAlice, TxtSecret, TxtHost)
        /\ ret.arg \in {UriNoPassword, UriTwoColons} =>
               ret.kind = "error"

(* alice:secret@db.local was parsed. *)
C8_Witness ==
    /\ ret.op = "parse_uri_spec" /\ ret.kind = "return"
    /\ ret.arg = UriGood
    /\ ret.v = UriSpec(TxtAlice, TxtSecret, TxtHost)

(* C9: a getter call that fails affects only that call: after a failed     *)
(* call the mapping is the one given to the constructor, and every later   *)
(* getter call, on any key, returns or raises exactly what the same call   *)
(* does on an instance on which no call was ever made.                     *)
C9_FailedCallIsolated ==
    failed # {} =>
        /\ params = params0
        /\ ret.kind = Dispatch(ConfigManager(params0), rec).kind
        /\ ret.err = Dispatch(ConfigManager(params0), rec).err
        /\ ret.v = Dispatch(ConfigManager(params0), rec).v
        /\ ret.about = Dispatch(ConfigManager(params0), rec).about

(* After a failed call on A, a call on B returned a value. *)
C9_Witness ==
    /\ failed = {KeyA}
    /\ rec.key = KeyB /\ ret.op \in Getters /\ ret.kind = "return" /\ Truthy(ret.v)

(* C10: no operation changes the raw mapping: in every reachable state its *)
(* keys and its values are those given to the constructor.                 *)
C10_ParamsNeverChange == params = params0

(* Every key has been fetched, a getter has failed since, and the mapping  *)
(* has just been exported.                                                 *)
C10_Witness ==
    /\ DOMAIN params0 = {KeyA, KeyB, DecodeKey}
    /\ requested_keys = DOMAIN params0
    /\ decode_iterations # <<>>
    /\ ret.op = "get_requested_params" /\ DOMAIN ret.m = {KeyB, DecodeKey}

(* C11: in the typed list getter, when the key is present with an empty    *)
(* list or with a str that decodes to an empty list (and the options, if   *)
(* any, let the stored value through), or the key is absent and the call   *)
(* optional, the call returns the caller's default as it was given: not an *)
(* empty list, not a converted copy, also when the default is no list.     *)
C11_FalsyGivesDefault ==
    (/\ ret.op \in Getters \ {"get_list"} /\ rec.is_list
     /\ \/ ~HasKey(Self, rec.key) /\ rec.is_optional
        \/ /\ HasKey(Self, rec.key)
           /\ ~check_options(params[rec.key], rec.options)
           /\ Decoded(rec) = PyList(<<>>)) =>
        ret.kind = "return" /\ ret.v = rec.default

(* The value of decode_iterations on the instance as constructed. *)
Configured ==
    get_int(ConfigManager(params0), DecodeKey, FALSE, TRUE, FALSE, FALSE, PyInt(1), PyNone)

(* C12: _decode called without an iteration count makes exactly            *)
(* decode_iterations base64 passes, decode_iterations being the integer    *)
(* value of _POLYAXON_DECODE_ITERATION when the key is present and 1 when  *)
(* it is absent; so on an instance without the key _decode(_encode(t)) is  *)
(* t for every text t.                                                     *)
C12_DecodeDefaultPasses ==
    (ret.op = "_decode" /\ ret.flags = <<FALSE>> /\ Configured.kind = "return") =>
        /\ DecodeKey \notin DOMAIN params0 => Configured.v = PyInt(1)
        /\ ret.kind = IF decode_passes(ret.arg, Configured.v.n).ok THEN "return" ELSE "error"
        /\ ret.kind = "return" => ret.v = PyStr(decode_passes(ret.arg, Configured.v.n).t)
        /\ DecodeKey \notin DOMAIN params0 =>
               \A t \in DecodeTexts :
                   ret.arg = encode(t).t => ret.kind = "return" /\ ret.v = PyStr(t)

(* C13: _check_pulse says stop exactly when the counter is greater than    *)
(* CHECK_INTERVAL and the project is gone or has no notebook any more; a   *)
(* build whose project exists and has a notebook is never stopped, and a   *)
(* counter above CHECK_INTERVAL is then reset to 0; with a counter of at   *)
(* most CHECK_INTERVAL the project is not looked up, the counter comes     *)
(* back unchanged and stop is False.                                       *)
C13_PulseStopsBuild ==
    builder.last.called =>
        /\ builder.last.out.stop <=>
               /\ builder.last.arg > builder.CHECK_INTERVAL
               /\ \/ ~builder.last.project.exists
                  \/ ~builder.last.project.has_notebook
                  \/ ~builder.last.project.notebook
        /\ (/\ builder.last.project.exists
            /\ builder.last.project.has_notebook
            /\ builder.last.project.notebook) =>
               /\ ~builder.last.out.stop
               /\ builder.last.arg > builder.CHECK_INTERVAL =>
                      builder.last.out.check_pulse = 0
        /\ builder.last.arg <= builder.CHECK_INTERVAL =>
               /\ ~builder.last.out.looked_up
               /\ builder.last.out.check_pulse = builder.last.arg
               /\ ~builder.last.out.stop

(* A call with the counter just above CHECK_INTERVAL found the project     *)
(* without its notebook and said stop.                                     *)
C13_Witness ==
    /\ builder.last.called
    /\ builder.last.arg = builder.CHECK_INTERVAL + 1
    /\ builder.last.project = Project(TRUE, FALSE)
    /\ builder.last.out = Pulse(builder.last.arg, TRUE, TRUE)

(* C14: over any sequence of operations the three key sets only grow: no   *)
(* step takes a key out of requested_keys, secret_keys or local_keys.  So  *)
(* a key once fetched as secret (local) stays secret (local) when it is    *)
(* fetched again without the flag, and from then on no export made with    *)
(* the default arguments holds it.                                         *)
C14_KeySetsOnlyGrow ==
    [][/\ requested_keys \subseteq requested_keys'
       /\ secret_keys \subseteq secret_keys'
       /\ local_keys \subseteq local_keys'
       /\ (ret'.op = "get_requested_params" /\ ~ret'.flags[1] /\ ~ret'.flags[2]) =>
              \A key \in secret_keys \cup local_keys : key \notin DOMAIN ret'.m]_vars

(* A was fetched as secret, its last fetch came without a flag and         *)
(* returned, and the default export made after it holds B and not A.       *)
C14_Witness ==
    /\ rec.key = KeyA /\ ~rec.is_secret /\ ~rec.is_local
    /\ KeyA \notin failed
    /\ KeyA \in secret_keys
    /\ ret.op = "get_requested_params" /\ ret.flags = <<FALSE, FALSE, FALSE>>
    /\ DOMAIN ret.m = {KeyB}

=============================================================================
